---- MODULE Spec2Model ----
(***************************************************************************)
(* A model of bmp_utils.js: saveAsBMP and the helpers it calls             *)
(* (getPixelBytes, getPaletteBytes, split2bytes, createHeader,             *)
(* fillPalette, fillColorData_1/4/8/16/24) as a sequential state machine.  *)
(* One call of saveAsBMP is followed from its entry to the settlement of   *)
(* the promise it returns.  Arrays are functions on 0..n-1, as in the      *)
(* source.                                                                 *)
(***************************************************************************)
EXTENDS Integers, Sequences, FiniteSets, TLC

VARIABLES
    clArray,      \* argument: the pixel array (function on 0..length-1)
    width,        \* argument
    height,       \* argument
    encoding,     \* argument: the colour depth
    palette,      \* argument: sequence of records [R, G, B]
    pc,           \* position inside saveAsBMP
    allocated,    \* TRUE once `new Uint8Array(fileSize)` has run
    bufLen,       \* bytes.length of the Uint8Array
    bytes,        \* contents of the Uint8Array (function on 0..n-1)
    rowSizeBase,  \* destructured from createHeader's result
    deltaBase,    \* destructured from createHeader's result
    paletteSize,  \* saveAsBMP's local: palette.length * PALETTE_BYTE_SIZE
    k,            \* encoder local: output cursor
    i,            \* encoder local: loop counter
    i_row,        \* encoder local: byte (pixel, for 8 bit) inside the row
    i0,           \* encoder local: source index of the current row's start
                  \* (i0 in fillColorData_1/_4, i_active in fillColorData_8)
    result,       \* settlement of the promise: "pending", "0", "1", "rejected"
    err,          \* the exception the promise was rejected with, or "none"
    nWrites,      \* number of times writeFile was invoked
    writeOutcome, \* what writeFile did: "none", "ok", "failed"
    wr,           \* history: the indices the encoder stored to, in order
    rd,           \* history: the source indices the encoder read
    pads          \* history: number of `k += delta` row advances

vars == <<clArray, width, height, encoding, palette, pc, allocated, bufLen,
          bytes, rowSizeBase, deltaBase, paletteSize, k, i, i_row, i0,
          result, err, nWrites, writeOutcome, wr, rd, pads>>

-----------------------------------------------------------------------------
(* Constants of the source *)

FILE_HEADER_SIZE == 14
IMG_HEADER_SIZE == 40
B_ == 66
M_ == 77
PALETTE_BYTE_SIZE == 4
PIX_1BIT == 8
PIX_4BIT == 2
DPI_200_PIX_PER_M == 7874

(* Bounds of the model *)

MaxW == 17
MaxH == 3

-----------------------------------------------------------------------------
(* JavaScript arithmetic on the non-negative integers the model uses *)

\* Math.round(a / b) for a >= 0, b > 0: halves round up
MathRound(a, b) == (a \div b) + (IF 2 * (a % b) >= b THEN 1 ELSE 0)

\* v >> n and v << n on non-negative 32-bit values
Shr(v, n) == v \div (2 ^ n)
Shl(v, n) == v * (2 ^ n)

\* v & 255, and the conversion a Uint8Array store applies
And255(v) == v % 256
ToUint8(v) == v % 256

RECURSIVE BitOr(_, _)
BitOr(a, b) ==
    IF a = 0 THEN b
    ELSE IF b = 0 THEN a
    ELSE (IF (a % 2 = 1) \/ (b % 2 = 1) THEN 1 ELSE 0)
         + 2 * BitOr(a \div 2, b \div 2)

\* arr[idx] where a missing element (undefined) takes part in <<, | : ToInt32
\* of undefined is 0
InRange(arr, idx) == idx \in DOMAIN arr
Int32At(arr, idx) == IF InRange(arr, idx) THEN arr[idx] ELSE 0

\* bytes[idx] = v on a Uint8Array: a store outside 0..length-1 is ignored
Store(b, idx, v) == IF idx \in DOMAIN b THEN [b EXCEPT ![idx] = ToUint8(v)] ELSE b

-----------------------------------------------------------------------------
(* getPixelBytes, lines 20-41 *)

RowSizeOf(w, enc) ==
    CASE enc = 1 -> MathRound(w, 8)
      [] enc = 4 -> MathRound(w, 2)
      [] enc = 8 -> w
      [] enc = 16 -> 2 * w
      [] enc = 24 -> 3 * w
      [] enc = 32 -> 4 * w
      [] OTHER -> 3 * w

\* getPixelBytes with line 34 padding every row by a whole block, aligned or not
getPixelBytes_AlwaysPad(w, h, enc) ==
    LET rowSize0 == RowSizeOf(w, enc)
        delta == rowSize0 % 4
        rowSize == (rowSize0 - delta) + 4
    IN  [pixelSize |-> rowSize * h,
         rowSizeBase |-> rowSize0,
         deltaBase |-> rowSize - rowSize0]

getPixelBytes(w, h, enc) ==
    LET rowSize0 == RowSizeOf(w, enc)
        delta == rowSize0 % 4
        rowSize == (rowSize0 - delta) + (IF delta > 0 THEN 4 ELSE 0)
    IN  [pixelSize |-> rowSize * h,
         rowSizeBase |-> rowSize0,
         deltaBase |-> rowSize - rowSize0]

(* getPaletteBytes, lines 45-52 *)

getPaletteBytes(enc) ==
    CASE enc = 1 -> 2 * PALETTE_BYTE_SIZE
      [] enc = 4 -> 16 * PALETTE_BYTE_SIZE
      [] enc = 8 -> 256 * PALETTE_BYTE_SIZE
      [] OTHER -> 0

\* split2bytes with line 58 shifting val again instead of byteSecond
split2bytes_StaleShift(val) ==
    LET byteSecond == Shr(val, 8)
        byteThird == Shr(val, 8)
        byteFourth == Shr(byteThird, 8)
    IN  [n \in 0..3 |->
            CASE n = 0 -> And255(val)
              [] n = 1 -> And255(byteSecond)
              [] n = 2 -> And255(byteThird)
              [] OTHER -> And255(byteFourth)]

\* split2bytes, lines 56-61: a function on 0..3
split2bytes(val) ==
    LET byteSecond == Shr(val, 8)
        byteThird == Shr(byteSecond, 8)
        byteFourth == Shr(byteThird, 8)
    IN  [n \in 0..3 |->
            CASE n = 0 -> And255(val)
              [] n = 1 -> And255(byteSecond)
              [] n = 2 -> And255(byteThird)
              [] OTHER -> And255(byteFourth)]

-----------------------------------------------------------------------------
(* createHeader, lines 66-143 *)

\* lines 80-83
paletteItemsOf(enc) ==
    IF enc = 8 THEN 256 ELSE IF enc = 4 THEN 16 ELSE IF enc = 1 THEN 2 ELSE 0

headerSizeOf(enc) == FILE_HEADER_SIZE + IMG_HEADER_SIZE + getPaletteBytes(enc)
fileSizeOf(w, h, enc) == headerSizeOf(enc) + getPixelBytes(w, h, enc).pixelSize

\* lines 74-140: the 54 stores into bytes[0..53]
headerBytes(w, h, enc) ==
    LET f_byte == split2bytes(fileSizeOf(w, h, enc))
        h_byte == split2bytes(headerSizeOf(enc))
        width_byte == split2bytes(w)
        height_byte == split2bytes(h)
        resolution_byte == split2bytes(DPI_200_PIX_PER_M)
        palette_byte == split2bytes(paletteItemsOf(enc))
    IN  [n \in 0..(FILE_HEADER_SIZE + IMG_HEADER_SIZE - 1) |->
            CASE n = 0 -> B_
              [] n = 1 -> M_
              [] n \in 2..5 -> f_byte[n - 2]
              [] n \in 10..13 -> h_byte[n - 10]
              [] n = 14 -> IMG_HEADER_SIZE
              [] n \in 18..21 -> width_byte[n - 18]
              [] n \in 22..25 -> height_byte[n - 22]
              [] n = 26 -> 1
              [] n = 28 -> ToUint8(enc)
              [] n \in 38..41 -> resolution_byte[n - 38]
              [] n \in 42..45 -> resolution_byte[n - 42]
              [] n \in 46..47 -> palette_byte[n - 46]
              [] OTHER -> 0]

createHeader(w, h, enc) ==
    LET g == getPixelBytes(w, h, enc)
        fileSize == fileSizeOf(w, h, enc)
        hdr == headerBytes(w, h, enc)
    IN  [bytes |-> [n \in 0..(fileSize - 1) |->
                        IF n \in DOMAIN hdr THEN hdr[n] ELSE 0],
         length |-> fileSize,
         rowSizeBase |-> g.rowSizeBase,
         deltaBase |-> g.deltaBase]

(* fillPalette, lines 147-157 *)

fillPalette(b, pal) ==
    LET base == FILE_HEADER_SIZE + IMG_HEADER_SIZE
    IN  [n \in DOMAIN b |->
            IF n >= base /\ n < base + 4 * Len(pal)
            THEN LET e == pal[((n - base) \div 4) + 1]
                     c == (n - base) % 4
                 IN  CASE c = 0 -> ToUint8(e.R)
                       [] c = 1 -> ToUint8(e.G)
                       [] c = 2 -> ToUint8(e.B)
                       [] OTHER -> 0
            ELSE b[n]]

-----------------------------------------------------------------------------
(* The arguments a call is made with *)

Supported == {1, 4, 8, 16, 24}
Encodings == Supported \cup {2, 32}
PaletteLens == {0, 2, 16, 256}
Patterns == {"ones", "ramp", "toprow"}
LenDeltas == {0, 1}

\* the largest pixel value a depth can store
PixMax(enc) ==
    CASE enc = 1 -> 1
      [] enc = 4 -> 15
      [] enc = 8 -> 255
      [] enc = 16 -> 65535
      [] enc = 24 -> 16777215
      [] OTHER -> 255

MkPixels(w, h, enc, pat, extra) ==
    [n \in 0..(w * h + extra - 1) |->
        CASE pat = "ones" -> PixMax(enc)
          [] pat = "ramp" -> (n + 1) % (PixMax(enc) + 1)
          [] OTHER -> IF n < w THEN PixMax(enc) ELSE 0]

MkPalette(len) ==
    [n \in 1..len |-> [R |-> (n - 1) % 256, G |-> (2 * n) % 256, B |-> 255 - ((n - 1) % 256)]]

NoBytes == [n \in {} |-> 0]

InitLocals ==
    /\ pc = "call"
    /\ allocated = FALSE
    /\ bufLen = 0
    /\ bytes = NoBytes
    /\ rowSizeBase = 0
    /\ deltaBase = 0
    /\ paletteSize = 0
    /\ k = 0
    /\ i = 0
    /\ i_row = 0
    /\ i0 = 0
    /\ result = "pending"
    /\ err = "none"
    /\ nWrites = 0
    /\ writeOutcome = "none"
    /\ wr = <<>>
    /\ rd = {}
    /\ pads = 0

Init ==
    /\ width \in 0..MaxW
    /\ height \in 0..MaxH
    /\ encoding \in Encodings
    /\ palette \in {MkPalette(len) : len \in PaletteLens}
    /\ \E pat \in Patterns, extra \in LenDeltas :
          clArray = MkPixels(width, height, encoding, pat, extra)
    /\ InitLocals

-----------------------------------------------------------------------------
(* saveAsBMP, lines 250-272 *)

\* line 251
CreateHeader ==
    /\ pc = "call"
    /\ LET hd == createHeader(width, height, encoding)
       IN  /\ bytes' = hd.bytes
           /\ bufLen' = hd.length
           /\ rowSizeBase' = hd.rowSizeBase
           /\ deltaBase' = hd.deltaBase
    /\ allocated' = TRUE
    /\ pc' = "palette"
    /\ UNCHANGED <<clArray, width, height, encoding, palette, paletteSize, k, i,
                   i_row, i0, result, err, nWrites, writeOutcome, wr, rd, pads>>

\* lines 252-254
FillPalette ==
    /\ pc = "palette"
    /\ paletteSize' = Len(palette) * PALETTE_BYTE_SIZE
    /\ bytes' = IF Len(palette) * PALETTE_BYTE_SIZE > 0
                THEN fillPalette(bytes, palette) ELSE bytes
    /\ pc' = "dispatch"
    /\ UNCHANGED <<clArray, width, height, encoding, palette, allocated, bufLen,
                   rowSizeBase, deltaBase, k, i, i_row, i0, result, err,
                   nWrites, writeOutcome, wr, rd, pads>>

\* the variables no encoder step changes
frame == <<clArray, width, height, encoding, palette, allocated, bufLen,
           rowSizeBase, deltaBase, paletteSize, result, err, nWrites,
           writeOutcome>>

pointSize == Cardinality(DOMAIN clArray)

\* lines 257-259 with lines 165-169, 192-196, 211-214: the call of
\* fillColorData_1/_4/_8 and the initialisation of its locals
EnterFill(pixPerByte) ==
    /\ pc' = "loop"
    /\ k' = FILE_HEADER_SIZE + IMG_HEADER_SIZE + paletteSize
    /\ i_row' = 0
    /\ i0' = pointSize - rowSizeBase * pixPerByte
    /\ i' = 0
    /\ UNCHANGED <<bytes, wr, rd, pads>>
    /\ UNCHANGED frame

Enter_1 == pc = "dispatch" /\ encoding = 1 /\ EnterFill(PIX_1BIT)
Enter_4 == pc = "dispatch" /\ encoding = 4 /\ EnterFill(PIX_4BIT)
Enter_8 == pc = "dispatch" /\ encoding = 8 /\ EnterFill(1)

\* lines 181-185, 200-204, 217-221: the end of an iteration, after bytes[k++]
RowAdvance(deltaRow) ==
    IF i_row + 1 = rowSizeBase
    THEN /\ k' = k + 1 + deltaBase
         /\ i_row' = 0
         /\ i0' = i0 - deltaRow
         /\ pads' = pads + 1
    ELSE /\ k' = k + 1
         /\ i_row' = i_row + 1
         /\ i0' = i0
         /\ pads' = pads

\* lines 172-179: NaN (an undefined left operand of +) is stored as 0
Pack_1(i_active) ==
    IF ~InRange(clArray, i_active + 7) THEN 0
    ELSE clArray[i_active + 7]
         + Shl(Int32At(clArray, i_active + 6), 1)
         + Shl(Int32At(clArray, i_active + 5), 2)
         + Shl(Int32At(clArray, i_active + 4), 3)
         + Shl(Int32At(clArray, i_active + 3), 4)
         + Shl(Int32At(clArray, i_active + 2), 5)
         + Shl(Int32At(clArray, i_active + 1), 6)
         + Shl(Int32At(clArray, i_active), 7)

\* line 199
Pack_4(i_active) ==
    BitOr(Int32At(clArray, i_active + 1), Shl(Int32At(clArray, i_active), 4))

\* line 216: undefined is stored as 0
Pack_8(idx) == Int32At(clArray, idx)

\* one iteration of the loop of fillColorData_1, lines 170-186
Step_1 ==
    /\ pc = "loop" /\ encoding = 1 /\ i < pointSize
    /\ LET i_active == Shl(i_row, 3) + i0
       IN  /\ bytes' = Store(bytes, k, Pack_1(i_active))
           /\ rd' = rd \cup (i_active..(i_active + 7))
    /\ wr' = Append(wr, k)
    /\ RowAdvance(rowSizeBase * PIX_1BIT)
    /\ i' = i + 8
    /\ pc' = pc
    /\ UNCHANGED frame

\* one iteration of the loop of fillColorData_4, lines 197-205
Step_4 ==
    /\ pc = "loop" /\ encoding = 4 /\ i < pointSize
    /\ LET i_active == Shl(i_row, 1) + i0
       IN  /\ bytes' = Store(bytes, k, Pack_4(i_active))
           /\ rd' = rd \cup (i_active..(i_active + 1))
    /\ wr' = Append(wr, k)
    /\ RowAdvance(rowSizeBase * PIX_4BIT)
    /\ i' = i + 2
    /\ pc' = pc
    /\ UNCHANGED frame

\* one iteration of the loop of fillColorData_8, lines 215-222
Step_8 ==
    /\ pc = "loop" /\ encoding = 8 /\ i < pointSize
    /\ bytes' = Store(bytes, k, Pack_8(i0 + i_row))
    /\ rd' = rd \cup {i0 + i_row}
    /\ wr' = Append(wr, k)
    /\ RowAdvance(rowSizeBase)
    /\ i' = i + 1
    /\ pc' = pc
    /\ UNCHANGED frame

\* the loop condition fails and the encoder returns to line 265
LoopExit ==
    /\ pc = "loop" /\ i >= pointSize
    /\ pc' = "write"
    /\ UNCHANGED <<bytes, k, i, i_row, i0, wr, rd, pads>>
    /\ UNCHANGED frame

\* lines 228 and 239: `FILE_HEADER_SIZE = 14 + IMG_HEADER_SIZE` assigns to a
\* const binding, which throws a TypeError before the loop is entered; thrown
\* outside the try of an async function, it rejects the promise
ThrowTypeError ==
    /\ pc' = "done"
    /\ result' = "rejected"
    /\ err' = "TypeError"
    /\ UNCHANGED <<clArray, width, height, encoding, palette, allocated, bufLen,
                   bytes, rowSizeBase, deltaBase, paletteSize, k, i, i_row, i0,
                   nWrites, writeOutcome, wr, rd, pads>>

\* line 260
FillColorData_16 == pc = "dispatch" /\ encoding = 16 /\ ThrowTypeError

\* lines 261-262: case 24 and default
FillColorData_24 == pc = "dispatch" /\ encoding \notin {1, 4, 8, 16} /\ ThrowTypeError

\* Settle with the catch block of lines 268-271 falling through to `return 0`
Settle_SwallowError(outcome) ==
    /\ nWrites' = nWrites + 1
    /\ writeOutcome' = outcome
    /\ result' = "0"
    /\ pc' = "done"
    /\ UNCHANGED <<clArray, width, height, encoding, palette, allocated, bufLen,
                   bytes, rowSizeBase, deltaBase, paletteSize, k, i, i_row, i0,
                   err, wr, rd, pads>>

\* lines 265-271: what saveAsBMP does with writeFile's outcome
Settle(outcome) ==
    /\ nWrites' = nWrites + 1
    /\ writeOutcome' = outcome
    /\ result' = IF outcome = "ok" THEN "0" ELSE "1"
    /\ pc' = "done"
    /\ UNCHANGED <<clArray, width, height, encoding, palette, allocated, bufLen,
                   bytes, rowSizeBase, deltaBase, paletteSize, k, i, i_row, i0,
                   err, wr, rd, pads>>

\* lines 266-267: writeFile resolves
WriteOk == pc = "write" /\ Settle("ok")

\* lines 266, 268-270: writeFile rejects
WriteFail == pc = "write" /\ Settle("failed")

Next ==
    \/ CreateHeader
    \/ FillPalette
    \/ Enter_1
    \/ Enter_4
    \/ Enter_8
    \/ Step_1
    \/ Step_4
    \/ Step_8
    \/ LoopExit
    \/ FillColorData_16
    \/ FillColorData_24
    \/ WriteOk
    \/ WriteFail

Spec == Init /\ [][Next]_vars

-----------------------------------------------------------------------------
(* createHeader alone, on dimensions that use all four bytes of a field.    *)
(* Here bytes holds the 54 header bytes of the buffer and bufLen its        *)
(* length; the dimensions are those whose file size is below 2^30.          *)

HeaderDims == {1, 2, 255, 256, 257, 65535, 65536, 65537, 16777215, 16777216,
               16777217, 2147483647}

Sizeable(w, h, enc) ==
    /\ enc \in {1, 4} \/ w <= 2 ^ 28
    /\ h <= (2 ^ 30) \div (RowSizeOf(w, enc) + 4)

InitHeader ==
    /\ width \in HeaderDims
    /\ height \in HeaderDims
    /\ encoding \in Supported
    /\ Sizeable(width, height, encoding)
    /\ palette = MkPalette(0)
    /\ clArray = NoBytes
    /\ InitLocals

\* line 251, lines 66-143
HeaderOnly ==
    /\ pc = "call"
    /\ bytes' = headerBytes(width, height, encoding)
    /\ bufLen' = fileSizeOf(width, height, encoding)
    /\ rowSizeBase' = getPixelBytes(width, height, encoding).rowSizeBase
    /\ deltaBase' = getPixelBytes(width, height, encoding).deltaBase
    /\ allocated' = TRUE
    /\ pc' = "palette"
    /\ UNCHANGED <<clArray, width, height, encoding, palette, paletteSize, k, i,
                   i_row, i0, result, err, nWrites, writeOutcome, wr, rd, pads>>

NextHeader == HeaderOnly

SpecHeader == InitHeader /\ [][NextHeader]_vars

-----------------------------------------------------------------------------
(* What the BMP format requires, for stating the properties *)

RequiredPaletteEntries(d) ==
    CASE d = 1 -> 2
      [] d = 4 -> 16
      [] d = 8 -> 256
      [] OTHER -> 0

CeilDiv(a, b) == (a + b - 1) \div b
RowBytes(d, w) == CeilDiv(d * w, 8)
Padded(n) == 4 * CeilDiv(n, 4)
PixelDataOffset(d) == 54 + 4 * RequiredPaletteEntries(d)

ValidImage ==
    /\ width >= 1
    /\ height >= 1
    /\ pointSize = width * height
    /\ encoding \in Supported
    /\ Len(palette) = RequiredPaletteEntries(encoding)

\* pixel c of logical row r; 0 to the right of the image
Pix(r, c) == IF c < width THEN clArray[r * width + c] ELSE 0

\* byte j of the packing of logical row r at depth d
ExpectedByte(d, r, j) ==
    CASE d = 1 -> Pix(r, 8 * j) * 128 + Pix(r, 8 * j + 1) * 64
                  + Pix(r, 8 * j + 2) * 32 + Pix(r, 8 * j + 3) * 16
                  + Pix(r, 8 * j + 4) * 8 + Pix(r, 8 * j + 5) * 4
                  + Pix(r, 8 * j + 6) * 2 + Pix(r, 8 * j + 7)
      [] d = 4 -> Pix(r, 2 * j) * 16 + Pix(r, 2 * j + 1)
      [] d = 8 -> Pix(r, j)
      [] d = 16 -> (Pix(r, j \div 2) \div (256 ^ (j % 2))) % 256
      [] OTHER -> (Pix(r, j \div 3) \div (256 ^ (j % 3))) % 256

\* stored row kk (0 = first in the file) holds logical row height-1-kk
StoredRowIs(d, kk) ==
    \A j \in 0..(RowBytes(d, width) - 1) :
        LET idx == PixelDataOffset(d) + kk * Padded(RowBytes(d, width)) + j
        IN  idx \in DOMAIN bytes /\ bytes[idx] = ExpectedByte(d, height - 1 - kk, j)

LE16(b, off) == b[off] + 256 * b[off + 1]
LE32(b, off) == b[off] + 256 * b[off + 1] + 65536 * b[off + 2] + 16777216 * b[off + 3]

-----------------------------------------------------------------------------
(* C1: for a valid image of a supported depth, the pixel-data region of    *)
(* the bytes saveAsBMP builds stores the rows bottom-up: stored row k is    *)
(* the depth's packing of logical row height-1-k, pixels left to right.     *)
C1_RowsBottomUp ==
    (ValidImage /\ pc \in {"write", "done"}) =>
        \A kk \in 0..(height - 1) : StoredRowIs(encoding, kk)

(* C2: for width, height >= 1 and a supported depth, the allocated buffer  *)
(* has length 54 + 4*N + R*height, R the smallest multiple of 4 that is     *)
(* >= ceiling(depth*width/8).                                               *)
C2_BufferLength ==
    (allocated /\ width >= 1 /\ height >= 1 /\ encoding \in Supported) =>
        bufLen = 54 + 4 * RequiredPaletteEntries(encoding)
                 + Padded(RowBytes(encoding, width)) * height

C4_LastByteMasked ==
    (ValidImage /\ encoding = 1 /\ width % 8 # 0 /\ pc \in {"write", "done"}) =>
        /\ \A kk \in 0..(height - 1) :
              LET last == RowBytes(1, width) - 1
                  idx == PixelDataOffset(1) + kk * Padded(RowBytes(1, width)) + last
              IN  idx \in DOMAIN bytes
                  /\ bytes[idx] = ExpectedByte(1, height - 1 - kk, last)
        /\ rd \subseteq 0..(pointSize - 1)

(* C5: 24-bit depth, empty palette, valid image: saveAsBMP completes        *)
(* without raising and stores every pixel as its three bytes blue, green,   *)
(* red, each row followed by its zero padding.                              *)
C5_TrueColourStored ==
    (ValidImage /\ encoding = 24 /\ pc = "done") =>
        /\ result \in {"0", "1"}
        /\ bufLen = 54 + Padded(3 * width) * height
        /\ \A kk \in 0..(height - 1) :
              /\ StoredRowIs(24, kk)
              /\ \A j \in (3 * width)..(Padded(3 * width) - 1) :
                    bytes[54 + kk * Padded(3 * width) + j] = 0

(* C6: a depth outside {1,4,8,16,24} is rejected with UnsupportedDepth      *)
(* before any buffer is allocated; the storage write is never invoked.      *)
C6_UnsupportedDepthRejected ==
    (encoding \notin Supported) =>
        /\ ~allocated
        /\ nWrites = 0
        /\ (pc = "done" => err = "UnsupportedDepth")

(* C7: width <= 0, height <= 0, a pixel array of the wrong length or a      *)
(* palette of the wrong length is detected before the buffer is allocated   *)
(* and aborts the call with the matching error; the write is never invoked. *)
C7_InvalidInputRejected ==
    (encoding \in Supported /\ ~ValidImage) =>
        /\ ~allocated
        /\ nWrites = 0
        /\ (pc = "done" =>
               err \in {"InvalidDimension", "PixelBufferLengthMismatch",
                        "PaletteSizeMismatch"})

(* C8: for width, height >= 1 and every encoding value, getPixelBytes       *)
(* returns rowSizeBase + deltaBase a multiple of 4, deltaBase in 0..3 and   *)
(* pixelSize = (rowSizeBase + deltaBase) * height.                          *)
C8_RowPadding ==
    (allocated /\ width >= 1 /\ height >= 1) =>
        LET g == getPixelBytes(width, height, encoding)
        IN  /\ (g.rowSizeBase + g.deltaBase) % 4 = 0
            /\ g.deltaBase \in 0..3
            /\ g.pixelSize = (g.rowSizeBase + g.deltaBase) * height
            /\ rowSizeBase = g.rowSizeBase
            /\ deltaBase = g.deltaBase
            /\ bufLen = headerSizeOf(encoding) + g.pixelSize

C8_Witness ==
    /\ allocated
    /\ width = 3
    /\ height = 2
    /\ encoding = 32
    /\ rowSizeBase = 12
    /\ deltaBase = 0

\* the state part of C9: what every state of a call satisfies
C9_State ==
    /\ nWrites <= 1
    /\ (nWrites = 1) = (writeOutcome # "none")
    /\ (result = "0") = (writeOutcome = "ok")
    /\ (result = "1") = (writeOutcome = "failed")
    /\ (result = "rejected") => (nWrites = 0 /\ err # "none")
    /\ (pc = "done") = (result # "pending")
    /\ (pc = "write") =>
          /\ allocated
          /\ paletteSize = Len(palette) * PALETTE_BYTE_SIZE
          /\ i >= pointSize

\* the step part of C9: what a step that invokes writeFile does
C9_Step ==
    (nWrites' # nWrites) =>
        /\ pc = "write"
        /\ pc' = "done"
        /\ nWrites' = nWrites + 1
        /\ bytes' = bytes

(* C9: writeFile is invoked at most once, only after header, palette and    *)
(* pixel encoding have finished; the call settles only after the write      *)
(* completed or failed, to 0 on success and to 1 on failure, with no retry; *)
(* a failure before the write settles the call too (the promise is          *)
(* rejected with the exception) and no write follows it.                    *)
C9_WriteOnceThenReport == [](C9_State) /\ [][C9_Step]_vars

C9_Witness ==
    /\ pc = "done"
    /\ ValidImage
    /\ encoding = 8
    /\ writeOutcome = "failed"
    /\ result = "1"
    /\ nWrites = 1

(* C10: on a valid image the encoders for depths 1, 4 and 8 move the        *)
(* cursor k only forward, store only inside [pixelDataOffset, length) and   *)
(* never twice to one index, read only inside the pixel array, advance      *)
(* over the padding once per row, and end with k = buffer length.           *)
C10_EncoderDiscipline ==
    (ValidImage /\ encoding \in {1, 4, 8} /\ pc \in {"loop", "write", "done"}) =>
        /\ \A n \in 1..Len(wr) :
              /\ wr[n] >= PixelDataOffset(encoding)
              /\ wr[n] < bufLen
              /\ \A m \in 1..(n - 1) : wr[m] < wr[n]
        /\ rd \subseteq 0..(pointSize - 1)
        /\ pads <= height
        /\ (pc \in {"write", "done"}) => (k = bufLen /\ pads = height)

====
